---- MODULE Spec2Model ----
(***************************************************************************)
(* Model of the HLS media-playlist conformance engine                      *)
(* (strck, src/hls/check.rs: MediaPlaylistCheck).                          *)
(*                                                                         *)
(* Every method of MediaPlaylistCheck is an operator from an engine record *)
(* (the fields of the struct, plus what the call handed to its sinks) to   *)
(* the engine record after the call.  An action of the state machine is    *)
(* one call of a public entry point by the driver.                         *)
(***************************************************************************)
EXTENDS Integers, Sequences, FiniteSets, TLC

(* ------------------------------ bounds -------------------------------- *)
MaxMsn == 2         \* media sequence numbers 0..MaxMsn
MaxSegs == 3        \* segments per playlist 0..MaxSegs
MaxCalls == 4       \* exchanges per behaviour of Spec
StaleCalls == 6     \* exchanges per behaviour of SpecStale
HistSegs == 2       \* segments per playlist in SpecHist
HistCalls == 3      \* exchanges per behaviour of SpecHist
EnvCalls == 2       \* exchanges per behaviour of SpecEnv

(* --------------------------- Option<T> -------------------------------- *)
None == <<>>
Some(x) == <<x>>
is_some(o) == o # <<>>
unwrap(o) == o[1]

(* ------------------------ LastError (enum) ---------------------------- *)
LastError_None == [kind |-> "None", code |-> 0]
LastError_HttpError(e) == [kind |-> "HttpError", code |-> e]
LastError_Timeout == [kind |-> "Timeout", code |-> 0]

(* ------------------------- values of inputs --------------------------- *)
\* Content-Type header values; 0 stands for an absent header.
CT_HLS == 1
CT_OTHER == 2
\* names of the lifetime properties carried by the addition/removal events
PROP_I_FRAMES_ONLY == 1
PROP_INDEPENDENT_SEGMENTS == 2

(* --------------------------- HlsEvent --------------------------------- *)
\* One record shape for every event kind: before/after are the exchange ids
\* of the Delta (after alone for events that carry one req_id), msn the
\* segment number, x, y, z the remaining numeric payload (0 when unused).
HlsEvent(kind, before, after, msn, x, y, z) ==
    [kind |-> kind, sev |-> "", before |-> before, after |-> after,
     msn |-> msn, x |-> x, y |-> y, z |-> z]

(* --------------------------- EventSink -------------------------------- *)
log_put(s, sev, evt) == [s EXCEPT !.log = Append(@, [evt EXCEPT !.sev = sev])]
log_info(s, evt) == log_put(s, "info", evt)
log_warning(s, evt) == log_put(s, "warning", evt)
log_error(s, evt) == log_put(s, "error", evt)

(* ----------------------------- Metric --------------------------------- *)
metric_put(s, v) == [s EXCEPT !.msn_regression = Append(@, v)]

(* ------------------------------ panics -------------------------------- *)
\* A failed unwrap / assert_eq! / unsigned subtraction unwinds out of the
\* entry point: the fields keep what was assigned so far and nothing later
\* in the call runs.
panic(s, why) == [s EXCEPT !.panicked = why]
ok(s) == s.panicked = ""
\* a - b on unsigned integers leaves their range (a panic in a debug build,
\* a wrapped value in a release build)
sub_overflows(a, b) == a < b

(* ----------------------------- Timeline ------------------------------- *)
\* The set of tracked segment numbers; tl_calls records each call the
\* engine makes, in order, with its arguments.
remove_older_than(s, cutoff) ==
    [s EXCEPT !.timeline = {n \in @ : n >= cutoff},
              !.tl_calls = Append(@, [op |-> "remove_older_than",
                                      cutoff |-> cutoff, segs |-> <<>>])]

append_new_segments(s, segs) ==
    [s EXCEPT !.timeline = @ \cup {segs[i].number : i \in DOMAIN segs},
              !.tl_calls = Append(@, [op |-> "append_new_segments", cutoff |-> 0,
                                      segs |-> [i \in DOMAIN segs |-> segs[i].number]])]

(* ----------------------- playlist accessors --------------------------- *)
segments(pl) == pl.segments
last_segment(pl) ==
    IF Len(pl.segments) = 0 THEN None ELSE Some(pl.segments[Len(pl.segments)])
\* Iterator::skip(n)
skip(seq, n) == IF n >= Len(seq) THEN <<>> ELSE SubSeq(seq, n + 1, Len(seq))
\* Iterator::zip: as many pairs as both have in common
zip(a, b) ==
    [i \in 1..(IF Len(a) < Len(b) THEN Len(a) ELSE Len(b)) |-> <<a[i], b[i]>>]

(* ------------------------------ new ----------------------------------- *)
new ==
    [log |-> <<>>,
     last_playlist |-> None,
     timeline |-> {},
     since_last_update |-> 0,
     last_fresh_playlist_req |-> None,
     final_msn |-> None,
     ended |-> FALSE,
     msn_regression |-> <<>>,
     last_error |-> LastError_None,
     tl_calls |-> <<>>,
     panicked |-> ""]

(* -------------------------- not_modified ------------------------------ *)
\* variant: an unchanged manifest counts as a success for fault escalation
not_modified_clears_fault(s) ==
    [s EXCEPT !.since_last_update = @ + 1, !.last_error = LastError_None]

not_modified(s) == [s EXCEPT !.since_last_update = @ + 1]

(* -------------------------- error_status ------------------------------ *)
\* variant: any repeated HTTP failure is downgraded, whatever its code
error_status_any_code(s, href, status) ==
    LET evt == HlsEvent("HttpErrorStatus", 0, href.id, 0, status, 0, 0)
        s1 == IF s.last_error.kind = "HttpError"
              THEN log_warning(s, evt)
              ELSE log_error(s, evt)
    IN [s1 EXCEPT !.last_error = LastError_HttpError(status)]

error_status(s, href, status) ==
    LET evt == HlsEvent("HttpErrorStatus", 0, href.id, 0, status, 0, 0)
        s1 == IF s.last_error.kind = "HttpError"
              THEN IF s.last_error.code = status
                   THEN log_warning(s, evt)
                   ELSE log_error(s, evt)
              ELSE log_error(s, evt)
    IN [s1 EXCEPT !.last_error = LastError_HttpError(status)]

(* ----------------------------- timeout -------------------------------- *)
\* variant: a timeout after any fault is downgraded
timeout_any_fault(s, req) ==
    LET evt == HlsEvent("HttpTimeout", 0, req.id, 0, 0, 0, 0)
        s1 == IF s.last_error.kind # "None"
              THEN log_warning(s, evt)
              ELSE log_error(s, evt)
    IN [s1 EXCEPT !.last_error = LastError_Timeout]

timeout(s, req) ==
    LET evt == HlsEvent("HttpTimeout", 0, req.id, 0, 0, 0, 0)
        s1 == IF s.last_error.kind = "Timeout"
              THEN log_warning(s, evt)
              ELSE log_error(s, evt)
    IN [s1 EXCEPT !.last_error = LastError_Timeout]

(* ------------------------------ delta --------------------------------- *)
delta(before, after) == [before |-> before.href.id, after |-> after.href.id]

(* ------------------- check_invariant_properties ----------------------- *)
check_invariant_properties(s, last, this) ==
    LET d == delta(last, this)
        s1 == IF last.playlist.has_i_frames_only # this.playlist.has_i_frames_only
              THEN IF last.playlist.has_i_frames_only
                   THEN log_error(s, HlsEvent("UnexpectedPlaylistPropertyRemoval",
                                   d.before, d.after, 0, PROP_I_FRAMES_ONLY, 0, 0))
                   ELSE log_error(s, HlsEvent("UnexpectedPlaylistPropertyAddition",
                                   d.before, d.after, 0, PROP_I_FRAMES_ONLY, 0, 0))
              ELSE s
        s2 == IF last.playlist.has_independent_segments
                   # this.playlist.has_independent_segments
              THEN IF last.playlist.has_independent_segments
                   THEN log_error(s1, HlsEvent("UnexpectedPlaylistPropertyRemoval",
                                   d.before, d.after, 0, PROP_INDEPENDENT_SEGMENTS, 0, 0))
                   ELSE log_error(s1, HlsEvent("UnexpectedPlaylistPropertyAddition",
                                   d.before, d.after, 0, PROP_INDEPENDENT_SEGMENTS, 0, 0))
              ELSE s1
        s3 == IF last.playlist.target_duration # this.playlist.target_duration
              THEN log_error(s2, HlsEvent("TargetDurationChanged", d.before, d.after, 0,
                                   last.playlist.target_duration,
                                   this.playlist.target_duration, 0))
              ELSE s2
        last_content_type == last.href.content_type
        this_content_type == this.href.content_type
    IN IF last_content_type # this_content_type
       THEN log_warning(s3, HlsEvent("ContentTypeChanged", d.before, d.after, 0,
                                   last_content_type, this_content_type, 0))
       ELSE s3

(* ---------------------- check_segment_invariant ----------------------- *)
\* variant: the remaining fields are compared after a URI change as well
check_segment_invariant_no_return(s, last, this, last_seg, this_seg) ==
    LET d == delta(last, this)
        s0 == IF last_seg.uri # this_seg.uri
              THEN log_error(s, HlsEvent("ManifestHistoryChangedUri", d.before, d.after,
                                         this_seg.number, last_seg.uri, this_seg.uri, 0))
              ELSE s
        s1 == IF last_seg.has_discontinuity # this_seg.has_discontinuity
              THEN IF this_seg.has_discontinuity
                   THEN log_error(s0, HlsEvent("ManifestHistoryAddedDiscontinuity",
                                  d.before, d.after, this_seg.number, 0, 0, 0))
                   ELSE log_error(s0, HlsEvent("ManifestHistoryRemovedDiscontinuity",
                                  d.before, d.after, this_seg.number, 0, 0, 0))
              ELSE s0
        s2 == IF last_seg.duration # this_seg.duration
              THEN log_error(s1, HlsEvent("ManifestHistoryChangedSegmentDuration",
                                  d.before, d.after, this_seg.number,
                                  last_seg.duration, this_seg.duration, 0))
              ELSE s1
    IN IF last_seg.byte_range # this_seg.byte_range
       THEN log_error(s2, HlsEvent("ManifestHistoryChangedSegmentByterange",
                                  d.before, d.after, this_seg.number,
                                  last_seg.byte_range, this_seg.byte_range, 0))
       ELSE s2

check_segment_invariant(s, last, this, last_seg, this_seg) ==
    LET d == delta(last, this)
    IN IF last_seg.uri # this_seg.uri
       THEN log_error(s, HlsEvent("ManifestHistoryChangedUri", d.before, d.after,
                                  this_seg.number, last_seg.uri, this_seg.uri, 0))
       ELSE
         LET s1 == IF last_seg.has_discontinuity # this_seg.has_discontinuity
                   THEN IF this_seg.has_discontinuity
                        THEN log_error(s, HlsEvent("ManifestHistoryAddedDiscontinuity",
                                       d.before, d.after, this_seg.number, 0, 0, 0))
                        ELSE log_error(s, HlsEvent("ManifestHistoryRemovedDiscontinuity",
                                       d.before, d.after, this_seg.number, 0, 0, 0))
                   ELSE s
             s2 == IF last_seg.duration # this_seg.duration
                   THEN log_error(s1, HlsEvent("ManifestHistoryChangedSegmentDuration",
                                       d.before, d.after, this_seg.number,
                                       last_seg.duration, this_seg.duration, 0))
                   ELSE s1
         IN IF last_seg.byte_range # this_seg.byte_range
            THEN log_error(s2, HlsEvent("ManifestHistoryChangedSegmentByterange",
                                       d.before, d.after, this_seg.number,
                                       last_seg.byte_range, this_seg.byte_range, 0))
            ELSE s2

(* ------------------ check_manifest_history_invariant ------------------ *)
\* the body of the for loop, for the pairs i..Len(pairs) in order
RECURSIVE history_loop(_, _, _, _, _)
history_loop(s, last, this, pairs, i) ==
    IF i > Len(pairs) \/ ~ok(s) THEN s
    ELSE LET last_seg == pairs[i][1]
             this_seg == pairs[i][2]
         IN IF last_seg.number # this_seg.number
            THEN panic(s, "assert_eq")
            ELSE history_loop(check_segment_invariant(s, last, this, last_seg, this_seg),
                              last, this, pairs, i + 1)

\* variant: the prior segments are paired from their start
check_manifest_history_invariant_no_skip(s, last, this) ==
    IF sub_overflows(this.playlist.media_sequence, last.playlist.media_sequence)
    THEN panic(s, "overflow")
    ELSE LET last_segments == segments(last.playlist)
             this_segments == segments(this.playlist)
         IN history_loop(s, last, this, zip(last_segments, this_segments), 1)

check_manifest_history_invariant(s, last, this) ==
    IF sub_overflows(this.playlist.media_sequence, last.playlist.media_sequence)
    THEN panic(s, "overflow")
    ELSE LET skp == this.playlist.media_sequence - last.playlist.media_sequence
             last_segments == skip(segments(last.playlist), skp)
             this_segments == segments(this.playlist)
         IN history_loop(s, last, this, zip(last_segments, this_segments), 1)

(* ---------------------------- check_stale ----------------------------- *)
\* variant: staleness is reported one exchange earlier
check_stale_early(s, this) ==
    LET l == last_segment(this.playlist)
        this_msn == IF is_some(l) THEN Some(unwrap(l).number) ELSE None
        s1 == IF is_some(s.final_msn) /\ is_some(this_msn)
              THEN IF unwrap(s.final_msn) >= unwrap(this_msn)
                   THEN IF s.since_last_update >= 1
                        THEN IF ~is_some(s.last_fresh_playlist_req)
                             THEN panic(s, "unwrap_fresh")
                             ELSE LET event == HlsEvent("ManifestStale",
                                                 unwrap(s.last_fresh_playlist_req),
                                                 this.href.id, 0, s.since_last_update, 0, 0)
                                  IN IF s.since_last_update >= 2
                                     THEN log_error(s, event)
                                     ELSE log_warning(s, event)
                        ELSE s
                   ELSE [s EXCEPT !.since_last_update = 0,
                                  !.last_fresh_playlist_req = Some(this.href.id)]
              ELSE s
    IN IF ~ok(s1) THEN s1
       ELSE [s1 EXCEPT !.since_last_update = @ + 1, !.final_msn = this_msn]

\* variant: an advance by one segment does not count as progress
check_stale_lagging(s, this) ==
    LET l == last_segment(this.playlist)
        this_msn == IF is_some(l) THEN Some(unwrap(l).number) ELSE None
        s1 == IF is_some(s.final_msn) /\ is_some(this_msn)
              THEN IF unwrap(s.final_msn) + 1 >= unwrap(this_msn)
                   THEN IF s.since_last_update > 1
                        THEN IF ~is_some(s.last_fresh_playlist_req)
                             THEN panic(s, "unwrap_fresh")
                             ELSE LET event == HlsEvent("ManifestStale",
                                                 unwrap(s.last_fresh_playlist_req),
                                                 this.href.id, 0, s.since_last_update, 0, 0)
                                  IN IF s.since_last_update > 2
                                     THEN log_error(s, event)
                                     ELSE log_warning(s, event)
                        ELSE s
                   ELSE [s EXCEPT !.since_last_update = 0,
                                  !.last_fresh_playlist_req = Some(this.href.id)]
              ELSE s
    IN IF ~ok(s1) THEN s1
       ELSE [s1 EXCEPT !.since_last_update = @ + 1, !.final_msn = this_msn]

check_stale(s, this) ==
    LET l == last_segment(this.playlist)
        this_msn == IF is_some(l) THEN Some(unwrap(l).number) ELSE None
        s1 == IF is_some(s.final_msn) /\ is_some(this_msn)
              THEN IF unwrap(s.final_msn) >= unwrap(this_msn)
                   THEN IF s.since_last_update > 1
                        THEN IF ~is_some(s.last_fresh_playlist_req)
                             THEN panic(s, "unwrap_fresh")
                             ELSE LET event == HlsEvent("ManifestStale",
                                                 unwrap(s.last_fresh_playlist_req),
                                                 this.href.id, 0, s.since_last_update, 0, 0)
                                  IN IF s.since_last_update > 2
                                     THEN log_error(s, event)
                                     ELSE log_warning(s, event)
                        ELSE s
                   ELSE [s EXCEPT !.since_last_update = 0,
                                  !.last_fresh_playlist_req = Some(this.href.id)]
              ELSE s
    IN IF ~ok(s1) THEN s1
       ELSE [s1 EXCEPT !.since_last_update = @ + 1, !.final_msn = this_msn]

(* -------------------------- update_timeline --------------------------- *)
\* variant: the overlap is counted one short
update_timeline_off_by_one(s, last, this) ==
    LET s1 == remove_older_than(s, this.playlist.media_sequence)
    IN IF ~is_some(last_segment(last.playlist)) THEN panic(s1, "unwrap")
       ELSE LET end_msn == unwrap(last_segment(last.playlist)).number
                skp == IF end_msn >= this.playlist.media_sequence
                       THEN end_msn - this.playlist.media_sequence
                       ELSE 0
            IN IF end_msn >= this.playlist.media_sequence
                  /\ sub_overflows(end_msn, this.playlist.media_sequence)
               THEN panic(s1, "overflow")
               ELSE append_new_segments(s1, skip(segments(this.playlist), skp))

\* variant: nothing is evicted
update_timeline_no_eviction(s, last, this) ==
    IF ~is_some(last_segment(last.playlist)) THEN panic(s, "unwrap")
    ELSE LET end_msn == unwrap(last_segment(last.playlist)).number
             skp == IF end_msn >= this.playlist.media_sequence
                    THEN 1 + end_msn - this.playlist.media_sequence
                    ELSE 0
         IN IF end_msn >= this.playlist.media_sequence
               /\ sub_overflows(1 + end_msn, this.playlist.media_sequence)
            THEN panic(s, "overflow")
            ELSE append_new_segments(s, skip(segments(this.playlist), skp))

update_timeline(s, last, this) ==
    LET s1 == remove_older_than(s, this.playlist.media_sequence)
    IN IF ~is_some(last_segment(last.playlist)) THEN panic(s1, "unwrap")
       ELSE LET end_msn == unwrap(last_segment(last.playlist)).number
                skp == IF end_msn >= this.playlist.media_sequence
                       THEN 1 + end_msn - this.playlist.media_sequence
                       ELSE 0
            IN IF end_msn >= this.playlist.media_sequence
                  /\ sub_overflows(1 + end_msn, this.playlist.media_sequence)
               THEN panic(s1, "overflow")
               ELSE append_new_segments(s1, skip(segments(this.playlist), skp))

(* ---------------------------- check_update ---------------------------- *)
\* variant: the metric counts regressions instead of measuring them
msn_gone_backwards_unit(s, last, this) ==
    LET d == delta(last, this)
    IN log_error(metric_put(s, 1),
                 HlsEvent("MsnGoneBackwards", d.before, d.after, 0,
                          last.playlist.media_sequence, this.playlist.media_sequence, 0))

\* variant: the healthy sample is put before the MSN comparison
msn_gone_backwards_after_healthy(s, last, this) ==
    LET regression == last.playlist.media_sequence - this.playlist.media_sequence
        d == delta(last, this)
    IN IF sub_overflows(last.playlist.media_sequence, this.playlist.media_sequence)
       THEN panic(s, "overflow")
       ELSE log_error(metric_put(metric_put(s, 0), regression),
                      HlsEvent("MsnGoneBackwards", d.before, d.after, 0,
                               last.playlist.media_sequence,
                               this.playlist.media_sequence, 0))

\* variant: the regression is computed as new - prior
msn_gone_backwards_swapped(s, last, this) ==
    LET regression == this.playlist.media_sequence - last.playlist.media_sequence
        d == delta(last, this)
    IN IF sub_overflows(this.playlist.media_sequence, last.playlist.media_sequence)
       THEN panic(s, "overflow")
       ELSE log_error(metric_put(s, regression),
                      HlsEvent("MsnGoneBackwards", d.before, d.after, 0,
                               last.playlist.media_sequence,
                               this.playlist.media_sequence, 0))

\* the branch taken when the MSN went backwards
msn_gone_backwards(s, last, this) ==
    LET regression == last.playlist.media_sequence - this.playlist.media_sequence
        d == delta(last, this)
    IN IF sub_overflows(last.playlist.media_sequence, this.playlist.media_sequence)
       THEN panic(s, "overflow")
       ELSE log_error(metric_put(s, regression),
                      HlsEvent("MsnGoneBackwards", d.before, d.after, 0,
                               last.playlist.media_sequence,
                               this.playlist.media_sequence, 0))

\* variant: any removal is an error
live_segments_removed_strict(s, last, this, last_n, this_n) ==
    LET removed_count == last_n - this_n
        d == delta(last, this)
        event == HlsEvent("LiveSegmentsRemoved", d.before, d.after, 0,
                          last_n, this_n, removed_count)
    IN IF sub_overflows(last_n, this_n) THEN panic(s, "overflow")
       ELSE IF removed_count >= 1 THEN log_error(s, event) ELSE log_warning(s, event)

\* the branch taken when segments vanished from the live edge
live_segments_removed(s, last, this, last_n, this_n) ==
    LET removed_count == last_n - this_n
        d == delta(last, this)
        event == HlsEvent("LiveSegmentsRemoved", d.before, d.after, 0,
                          last_n, this_n, removed_count)
    IN IF sub_overflows(last_n, this_n) THEN panic(s, "overflow")
       ELSE IF removed_count > 1 THEN log_error(s, event) ELSE log_warning(s, event)

check_update(s, last, this) ==
    LET s1 == IF last.playlist.has_end_list /\ ~this.playlist.has_end_list
              THEN log_warning(s, HlsEvent("EndListTagRemoved", 0, 0, 0, 0, 0, 0))
              ELSE s
    IN IF last.playlist.media_sequence > this.playlist.media_sequence
       THEN msn_gone_backwards(s1, last, this)
       ELSE LET s2 == metric_put(s1, 0)
            IN IF ~is_some(last_segment(last.playlist))
                  \/ ~is_some(last_segment(this.playlist))
               THEN panic(s2, "unwrap")
               ELSE LET last_n == unwrap(last_segment(last.playlist)).number
                        this_n == unwrap(last_segment(this.playlist)).number
                    IN IF last_n > this_n
                       THEN live_segments_removed(s2, last, this, last_n, this_n)
                       ELSE LET s3 == check_manifest_history_invariant(s2, last, this)
                                s4 == IF ok(s3) THEN check_stale(s3, this) ELSE s3
                            IN IF ok(s4) THEN update_timeline(s4, last, this) ELSE s4

(* --------------------- check_initial_configuration -------------------- *)
\* variant: only an absent content type is reported
check_initial_configuration_absent_only(s, this) ==
    LET content_type == this.href.content_type
    IN IF content_type = 0
       THEN log_error(s, HlsEvent("IncorrectContentType", 0, this.href.id, 0,
                                  content_type, 0, 0))
       ELSE s

check_initial_configuration(s, this) ==
    LET content_type == this.href.content_type
    IN IF content_type # CT_HLS
       THEN log_error(s, HlsEvent("IncorrectContentType", 0, this.href.id, 0,
                                  content_type, 0, 0))
       ELSE s

(* ---------------------------- check_headers --------------------------- *)
\* age is the Age header in seconds (None when absent or unparsable),
\* durations are in milliseconds.  The Date / Last-Modified comparison of
\* the source has an empty body and no effect.
check_headers(s, this) ==
    IF is_some(this.href.age)
    THEN LET a == unwrap(this.href.age)
         IN IF a * 1000 > this.playlist.target_duration
            THEN log_warning(s, HlsEvent("CachedTooLong", 0, this.href.id, 0, a,
                                         this.playlist.target_duration \div 1000, 0))
            ELSE s
    ELSE s

(* ---------------------------- next_playlist --------------------------- *)
\* variant: the fault state survives a successful fetch
clear_last_error_kept(s) == s

\* self.last_error = LastError::None
clear_last_error(s) == [s EXCEPT !.last_error = LastError_None]

\* the slow-response check
check_total_time(s, href, playlist_info, total_time) ==
    IF total_time >= playlist_info.playlist.target_duration
    THEN log_error(s, HlsEvent("SlowMediaManifestResponse", 0, href.id, 0, total_time,
                               playlist_info.playlist.target_duration, 0))
    ELSE s

\* variant: the latch is never set
check_end_list_no_latch(s, href, playlist_info) ==
    IF playlist_info.playlist.has_end_list /\ ~s.ended
    THEN log_info(s, HlsEvent("End", 0, href.id, 0, 0, 0, 0))
    ELSE s

\* the end-of-stream latch
check_end_list(s, href, playlist_info) ==
    IF playlist_info.playlist.has_end_list /\ ~s.ended
    THEN [log_info(s, HlsEvent("End", 0, href.id, 0, 0, 0, 0)) EXCEPT !.ended = TRUE]
    ELSE s

\* variant: the first snapshot is not remembered as the fresh one
record_fresh_baseline_missing(s, playlist_info) == s

\* being the first copy of the playlist, it cannot be stale
record_fresh_baseline(s, playlist_info) ==
    [s EXCEPT !.last_fresh_playlist_req = Some(playlist_info.href.id)]

next_playlist(s, href, playlist, total_time) ==
    LET s0 == clear_last_error(s)
        playlist_info == [href |-> href, playlist |-> playlist]
        \* self.last_playlist.take()
        taken == [s0 EXCEPT !.last_playlist = None]
        s1 == IF is_some(s0.last_playlist)
              THEN LET last_playlist == unwrap(s0.last_playlist)
                       c == check_invariant_properties(taken, last_playlist, playlist_info)
                   IN check_update(c, last_playlist, playlist_info)
              ELSE LET c == check_initial_configuration(taken, playlist_info)
                       a == append_new_segments(c, segments(playlist_info.playlist))
                   IN record_fresh_baseline(a, playlist_info)
        s2 == check_headers(s1, playlist_info)
        s3 == check_total_time(s2, href, playlist_info, total_time)
        s4 == check_end_list(s3, href, playlist_info)
    IN IF ~ok(s1) THEN s1
       ELSE [s4 EXCEPT !.last_playlist = Some(playlist_info)]

(***************************************************************************)
(* The state machine: one engine and the driver that calls it.             *)
(***************************************************************************)
VARIABLES
    log,                      \* events handed to the sink by the latest call
    last_playlist,            \* Option<PlaylistInfo>
    timeline,                 \* segment numbers the Timeline tracks
    since_last_update,
    last_fresh_playlist_req,  \* Option<HttpRef>
    final_msn,                \* Option<usize>
    ended,
    msn_regression,           \* samples handed to the metric by the latest call
    last_error,
    tl_calls,                 \* Timeline calls made by the latest call
    panicked,                 \* "" or why the latest call unwound
    reqs,                     \* exchanges completed so far (the next HttpRef id - 1)
    last_call,                \* the entry point the driver called last, its arguments
    recent,                   \* the last call that was not not_modified
    streak,                   \* position in a run of unchanged snapshots, -1 outside
    end_events,               \* End events handed to the sink since construction
    seen_playlist,            \* next_playlist has been called
    only_sane,                \* every next_playlist call so far was the first
                              \* snapshot or took the sane branch
    prior_msn                 \* media_sequence of the snapshot the latest
                              \* next_playlist call found (Option)

vars == <<log, last_playlist, timeline, since_last_update, last_fresh_playlist_req,
          final_msn, ended, msn_regression, last_error, tl_calls, panicked,
          reqs, last_call, recent, streak, end_events, seen_playlist, only_sane,
          prior_msn>>

\* the engine as a record, and back
Self ==
    [log |-> log, last_playlist |-> last_playlist, timeline |-> timeline,
     since_last_update |-> since_last_update,
     last_fresh_playlist_req |-> last_fresh_playlist_req,
     final_msn |-> final_msn, ended |-> ended, msn_regression |-> msn_regression,
     last_error |-> last_error, tl_calls |-> tl_calls, panicked |-> panicked]

\* a call starts with nothing handed to the sinks yet
Begin(s) == [s EXCEPT !.log = <<>>, !.msn_regression = <<>>, !.tl_calls = <<>>]

Assign(s) ==
    /\ log' = s.log
    /\ last_playlist' = s.last_playlist
    /\ timeline' = s.timeline
    /\ since_last_update' = s.since_last_update
    /\ last_fresh_playlist_req' = s.last_fresh_playlist_req
    /\ final_msn' = s.final_msn
    /\ ended' = s.ended
    /\ msn_regression' = s.msn_regression
    /\ last_error' = s.last_error
    /\ tl_calls' = s.tl_calls
    /\ panicked' = s.panicked

Count(seq, kind) == Cardinality({i \in DOMAIN seq : seq[i].kind = kind})

(* ------------------------------ inputs -------------------------------- *)
\* Segments are numbered consecutively from the playlist's media_sequence.
Seg(uri, disc, dur, br) ==
    [number |-> 0, uri |-> uri, has_discontinuity |-> disc, duration |-> dur,
     byte_range |-> br]
PlainSeg == Seg(1, FALSE, 4000, 0)

MediaPlaylist(msn, segs, end, ifr, ind, td) ==
    [media_sequence |-> msn,
     segments |-> [i \in DOMAIN segs |-> [segs[i] EXCEPT !.number = msn + i - 1]],
     has_end_list |-> end, has_i_frames_only |-> ifr,
     has_independent_segments |-> ind, target_duration |-> td]

HttpRef(id, ct, age) == [id |-> id, content_type |-> ct, age |-> age]

Input(pl, ct, age, tt) ==
    [playlist |-> pl, content_type |-> ct, age |-> age, total_time |-> tt]

Statuses == {404, 500}

\* Spec: sequencing, with and without segments and end marker
Inputs ==
    {Input(MediaPlaylist(m, [i \in 1..n |-> PlainSeg], e, FALSE, FALSE, 4000),
           CT_HLS, None, 1000) :
        m \in 0..MaxMsn, n \in 0..MaxSegs, e \in BOOLEAN}

\* SpecStale: long runs of snapshots that always have segments
StaleInputs ==
    {Input(MediaPlaylist(m, [i \in 1..n |-> PlainSeg], FALSE, FALSE, FALSE, 4000),
           CT_HLS, None, 1000) :
        m \in 0..1, n \in 1..2}

\* SpecHist: one segment of the playlist may differ from a plain one, in
\* its URI, discontinuity flag, duration or byte range
SegKinds ==
    {PlainSeg, Seg(2, FALSE, 6000, 7), Seg(1, TRUE, 6000, 0), Seg(1, TRUE, 4000, 7),
     Seg(1, TRUE, 4000, 0)}
HistInputs ==
    {Input(MediaPlaylist(m, [i \in 1..n |-> IF i = pos THEN k ELSE PlainSeg],
                         FALSE, FALSE, FALSE, 4000), CT_HLS, None, 1000) :
        m \in 0..1, n \in 1..HistSegs, pos \in 1..HistSegs, k \in SegKinds}

\* SpecEnv: headers, lifetime properties and response times
EnvInputs ==
    {Input(MediaPlaylist(0, <<PlainSeg>>, FALSE, ifr, ind, td), ct, age, tt) :
        ifr \in BOOLEAN, ind \in BOOLEAN, td \in {2000, 4000},
        ct \in {0, CT_HLS, CT_OTHER}, age \in {None, Some(3)}, tt \in {1000, 4000}}

(* ------------------------------ actions ------------------------------- *)
Init ==
    /\ log = new.log
    /\ last_playlist = new.last_playlist
    /\ timeline = new.timeline
    /\ since_last_update = new.since_last_update
    /\ last_fresh_playlist_req = new.last_fresh_playlist_req
    /\ final_msn = new.final_msn
    /\ ended = new.ended
    /\ msn_regression = new.msn_regression
    /\ last_error = new.last_error
    /\ tl_calls = new.tl_calls
    /\ panicked = new.panicked
    /\ reqs = 0
    /\ last_call = [op |-> "new", status |-> 0, playlist |-> None]
    /\ recent = [op |-> "new", status |-> 0, playlist |-> None]
    /\ streak = -1
    /\ end_events = 0
    /\ seen_playlist = FALSE
    /\ only_sane = TRUE
    /\ prior_msn = None

\* The branch of check_update that runs the history, staleness and timeline
\* steps: the MSN did not go back and the last segment number did not either.
sane(last, this) ==
    /\ last.media_sequence <= this.media_sequence
    /\ is_some(last_segment(last)) /\ is_some(last_segment(this))
    /\ unwrap(last_segment(last)).number <= unwrap(last_segment(this)).number

\* The driver reports one exchange; a call that unwound is the engine's last.
Driver(s, call) ==
    /\ reqs' = reqs + 1
    /\ last_call' = call
    /\ recent' = IF call.op = "not_modified" THEN recent ELSE call
    /\ end_events' = end_events + Count(s.log, "End")
    /\ Assign(s)

NotModified(maxc) ==
    /\ panicked = "" /\ reqs < maxc
    /\ Driver(not_modified(Begin(Self)), [op |-> "not_modified", status |-> 0, playlist |-> None])
    /\ streak' = -1
    /\ prior_msn' = None
    /\ UNCHANGED <<seen_playlist, only_sane>>

ErrorStatus(maxc) ==
    /\ panicked = "" /\ reqs < maxc
    /\ \E status \in Statuses :
         Driver(error_status(Begin(Self), HttpRef(reqs + 1, 0, None), status),
                [op |-> "error_status", status |-> status, playlist |-> None])
    /\ streak' = -1
    /\ prior_msn' = None
    /\ UNCHANGED <<seen_playlist, only_sane>>

Timeout(maxc) ==
    /\ panicked = "" /\ reqs < maxc
    /\ Driver(timeout(Begin(Self), HttpRef(reqs + 1, 0, None)),
              [op |-> "timeout", status |-> 0, playlist |-> None])
    /\ streak' = -1
    /\ prior_msn' = None
    /\ UNCHANGED <<seen_playlist, only_sane>>

NextPlaylist(ins, maxc) ==
    /\ panicked = "" /\ reqs < maxc
    /\ \E in \in ins :
         LET href == HttpRef(reqs + 1, in.content_type, in.age)
             s == next_playlist(Begin(Self), href, in.playlist, in.total_time)
             same == /\ is_some(last_playlist)
                     /\ sane(unwrap(last_playlist).playlist, in.playlist)
                     /\ unwrap(last_segment(unwrap(last_playlist).playlist)).number
                          = unwrap(last_segment(in.playlist)).number
         IN /\ Driver(s, [op |-> "next_playlist", status |-> 0,
                        playlist |-> Some(in.playlist)])
            /\ streak' = IF is_some(last_playlist)
                            /\ sane(unwrap(last_playlist).playlist, in.playlist)
                            /\ s.since_last_update = 1
                         THEN 0
                         ELSE IF same /\ streak >= 0 THEN streak + 1 ELSE -1
            /\ seen_playlist' = TRUE
            /\ only_sane' = (/\ only_sane
                             /\ \/ ~seen_playlist
                                \/ /\ is_some(last_playlist)
                                   /\ sane(unwrap(last_playlist).playlist, in.playlist))
            /\ prior_msn' = IF is_some(last_playlist)
                            THEN Some(unwrap(last_playlist).playlist.media_sequence)
                            ELSE None

Next ==
    \/ NotModified(MaxCalls)
    \/ ErrorStatus(MaxCalls)
    \/ Timeout(MaxCalls)
    \/ NextPlaylist(Inputs, MaxCalls)

Spec == Init /\ [][Next]_vars

NextStale ==
    \/ NotModified(StaleCalls)
    \/ ErrorStatus(StaleCalls)
    \/ Timeout(StaleCalls)
    \/ NextPlaylist(StaleInputs, StaleCalls)

SpecStale == Init /\ [][NextStale]_vars

NextHist ==
    \/ NotModified(HistCalls)
    \/ ErrorStatus(HistCalls)
    \/ Timeout(HistCalls)
    \/ NextPlaylist(HistInputs, HistCalls)

SpecHist == Init /\ [][NextHist]_vars

NextEnv ==
    \/ NotModified(EnvCalls)
    \/ ErrorStatus(EnvCalls)
    \/ Timeout(EnvCalls)
    \/ NextPlaylist(EnvInputs, EnvCalls)

SpecEnv == Init /\ [][NextEnv]_vars

(***************************************************************************)
(* Properties.                                                             *)
(***************************************************************************)
Faults == {"error_status", "timeout"}
IsEvent(e, kind, sev) == e.kind = kind /\ e.sev = sev

\* C1: at most one End event is ever emitted; it is emitted at info severity
\* by the first next_playlist whose playlist carries the end marker, and no
\* later call emits it again.
C1_EndEmittedOnce ==
    [][/\ end_events' <= 1
       /\ \A i \in DOMAIN log' :
            log'[i].kind = "End" =>
              /\ log'[i].sev = "info"
              /\ last_call'.op = "next_playlist"
              /\ end_events = 0
              /\ is_some(last_playlist')
              /\ unwrap(last_playlist').playlist.has_end_list
       /\ (/\ last_call'.op = "next_playlist" /\ panicked' = ""
           /\ unwrap(last_playlist').playlist.has_end_list
           /\ end_events = 0) => Count(log', "End") = 1]_vars

\* a later snapshot carries the end marker again and no End event is emitted
C1_Witness ==
    /\ end_events = 1 /\ last_call.op = "next_playlist" /\ panicked = ""
    /\ unwrap(last_playlist).playlist.has_end_list
    /\ Count(log, "End") = 0

\* C2: error_status emits exactly one HttpErrorStatus event, a warning iff the
\* most recent call other than not_modified was error_status with the same
\* status code, an error otherwise.
C2_ErrorStatusSeverity ==
    [][last_call'.op = "error_status" =>
         /\ Len(log') = 1
         /\ log'[1].kind = "HttpErrorStatus"
         /\ log'[1].x = last_call'.status
         /\ log'[1].sev =
              IF recent.op = "error_status" /\ recent.status = last_call'.status
              THEN "warning" ELSE "error"]_vars

C2_Witness ==
    /\ last_call.op = "error_status"
    /\ IsEvent(log[1], "HttpErrorStatus", "warning")

\* C3: timeout emits exactly one HttpTimeout event, a warning iff the most
\* recent call other than not_modified was a timeout, an error otherwise; an
\* error_status that follows a timeout is an error.
C3_TimeoutSeverity ==
    [][/\ last_call'.op = "timeout" =>
            /\ Len(log') = 1
            /\ log'[1].kind = "HttpTimeout"
            /\ log'[1].sev = IF recent.op = "timeout" THEN "warning" ELSE "error"
       /\ (last_call'.op = "error_status" /\ recent.op = "timeout") =>
            IsEvent(log'[1], "HttpErrorStatus", "error")]_vars

C3_Witness ==
    /\ last_call.op = "timeout"
    /\ IsEvent(log[1], "HttpTimeout", "warning")

\* C4: every next_playlist call leaves the fault state at none, and the first
\* error_status or timeout after a next_playlist is reported as an error.
C4_SuccessResetsFaults ==
    [][/\ last_call'.op = "next_playlist" => last_error' = LastError_None
       /\ (last_call'.op \in Faults /\ recent.op = "next_playlist") =>
            (Len(log') = 1 /\ log'[1].sev = "error")]_vars

\* a fault reported as an error by an engine that holds a snapshot
C4_Witness ==
    /\ last_call.op \in Faults /\ reqs >= 3
    /\ is_some(last_playlist)
    /\ log[1].sev = "error"

\* the snapshot held before a step and the playlist the step supplies
Prior == unwrap(last_playlist).playlist
Supplied == unwrap(last_call'.playlist)
LastNumber(pl) == unwrap(last_segment(pl)).number
Numbers(pl) == [i \in DOMAIN pl.segments |-> pl.segments[i].number]
EventsOf(l, kinds) == {i \in DOMAIN l : l[i].kind \in kinds}
EventsFor(l, kinds, n) == {i \in DOMAIN l : l[i].kind \in kinds /\ l[i].msn = n}

\* C5 (as stated): every next_playlist call of a run with non-decreasing MSN
\* reports 0 to the metric, and a call whose MSN is lower by k reports k.
C5_Original ==
    [][last_call'.op = "next_playlist" =>
         msn_regression' =
            IF is_some(last_playlist) /\ Supplied.media_sequence < Prior.media_sequence
            THEN <<Prior.media_sequence - Supplied.media_sequence>>
            ELSE <<0>>]_vars

\* C5 (amended): the first snapshot reports no sample; every later
\* next_playlist call whose MSN is not lower than the prior snapshot's reports
\* 0, and one whose MSN is lower by k reports k and emits one MsnGoneBackwards
\* error carrying both MSN values.
C5_RegressionMetric ==
    [][last_call'.op = "next_playlist" =>
         IF ~is_some(last_playlist)
         THEN msn_regression' = <<>> /\ EventsOf(log', {"MsnGoneBackwards"}) = {}
         ELSE IF Supplied.media_sequence < Prior.media_sequence
              THEN /\ msn_regression' = <<Prior.media_sequence - Supplied.media_sequence>>
                   /\ Cardinality(EventsOf(log', {"MsnGoneBackwards"})) = 1
                   /\ \A i \in EventsOf(log', {"MsnGoneBackwards"}) :
                        /\ log'[i].sev = "error"
                        /\ log'[i].x = Prior.media_sequence
                        /\ log'[i].y = Supplied.media_sequence
              ELSE /\ msn_regression' = <<0>>
                   /\ EventsOf(log', {"MsnGoneBackwards"}) = {}]_vars

\* a regression of two reported with its size
C5_Witness ==
    /\ last_call.op = "next_playlist"
    /\ msn_regression = <<2>>
    /\ \E i \in DOMAIN log : IsEvent(log[i], "MsnGoneBackwards", "error")
                              /\ log[i].x - log[i].y = 2

\* C6: an exchange outcome produces at most one regression-metric sample, and
\* not_modified, error_status and timeout produce none.
C6_AtMostOneSample ==
    /\ Len(msn_regression) <= 1
    /\ last_call.op \in {"not_modified", "error_status", "timeout"} =>
         msn_regression = <<>>

C6_Witness ==
    /\ last_call.op = "next_playlist"
    /\ Len(msn_regression) = 1 /\ msn_regression[1] > 0

\* C7: a next_playlist call on the sane branch first asks the Timeline to
\* evict everything below the new media_sequence, then appends exactly the
\* new segments numbered above the prior snapshot's last segment.
C7_TimelineUpdate ==
    [][(/\ last_call'.op = "next_playlist" /\ is_some(last_playlist)
        /\ sane(Prior, Supplied)) =>
         tl_calls' =
           <<[op |-> "remove_older_than", cutoff |-> Supplied.media_sequence,
              segs |-> <<>>],
             [op |-> "append_new_segments", cutoff |-> 0,
              segs |-> SelectSeq(Numbers(Supplied),
                                 LAMBDA n : n > LastNumber(Prior))]>>]_vars

\* prior 0..1, new 1..3: evict below 1, append exactly 2 and 3
C7_Witness ==
    tl_calls = <<[op |-> "remove_older_than", cutoff |-> 1, segs |-> <<>>],
                 [op |-> "append_new_segments", cutoff |-> 0, segs |-> <<2, 3>>]>>

OtherHistoryKinds ==
    {"ManifestHistoryAddedDiscontinuity", "ManifestHistoryRemovedDiscontinuity",
     "ManifestHistoryChangedSegmentDuration", "ManifestHistoryChangedSegmentByterange"}
HistoryKinds == OtherHistoryKinds \cup {"ManifestHistoryChangedUri"}

\* C8: in the history check, a segment number present in both snapshots gets
\* exactly one ManifestHistoryChangedUri error and no other history event if
\* its URI differs; otherwise one error for each of discontinuity, duration
\* and byte range that differs, and none for those that are equal.
C8_HistoryDiff ==
    [][(/\ last_call'.op = "next_playlist" /\ is_some(last_playlist)
        /\ sane(Prior, Supplied)) =>
         /\ \A i \in EventsOf(log', HistoryKinds) : log'[i].sev = "error"
         /\ \A i \in DOMAIN Prior.segments, j \in DOMAIN Supplied.segments :
              Prior.segments[i].number = Supplied.segments[j].number =>
                LET a == Prior.segments[i]
                    b == Supplied.segments[j]
                    n == b.number
                    N(kinds) == Cardinality(EventsFor(log', kinds, n))
                IN IF a.uri # b.uri
                   THEN /\ N({"ManifestHistoryChangedUri"}) = 1
                        /\ N(OtherHistoryKinds) = 0
                   ELSE /\ N({"ManifestHistoryChangedUri"}) = 0
                        /\ N({"ManifestHistoryAddedDiscontinuity"}) =
                             (IF ~a.has_discontinuity /\ b.has_discontinuity THEN 1 ELSE 0)
                        /\ N({"ManifestHistoryRemovedDiscontinuity"}) =
                             (IF a.has_discontinuity /\ ~b.has_discontinuity THEN 1 ELSE 0)
                        /\ N({"ManifestHistoryChangedSegmentDuration"}) =
                             (IF a.duration # b.duration THEN 1 ELSE 0)
                        /\ N({"ManifestHistoryChangedSegmentByterange"}) =
                             (IF a.byte_range # b.byte_range THEN 1 ELSE 0)]_vars

\* segment 1 changed its URI (and with it duration and byte range): one
\* history event for it, the URI one
C8_Witness ==
    /\ last_call.op = "next_playlist"
    /\ \E i \in DOMAIN log :
         /\ IsEvent(log[i], "ManifestHistoryChangedUri", "error")
         /\ log[i].msn = 1 /\ log[i].x = 1 /\ log[i].y = 2
    /\ Cardinality(EventsFor(log, HistoryKinds, 1)) = 1

C10_NotModifiedFrame ==
    [][/\ last_call'.op = "not_modified" =>
            /\ since_last_update' = since_last_update + 1
            /\ log' = <<>> /\ msn_regression' = <<>> /\ tl_calls' = <<>>
            /\ panicked' = ""
            /\ UNCHANGED <<last_error, last_playlist, final_msn,
                           last_fresh_playlist_req, ended, timeline>>
       /\ (/\ last_call.op = "not_modified" /\ recent.op = "error_status"
           /\ last_call'.op = "error_status"
           /\ last_call'.status = recent.status) =>
            IsEvent(log'[1], "HttpErrorStatus", "warning")]_vars

\* not_modified called between a fault and whatever follows it
C10_Witness ==
    /\ last_call.op = "not_modified"
    /\ last_error.kind = "HttpError"
    /\ is_some(last_playlist)
    /\ since_last_update >= 2


\* C11: after every next_playlist call the stored snapshot is the playlist
\* just supplied, whichever checks fired; not_modified, error_status and
\* timeout leave it as it was; once a snapshot is stored there is always one;
\* and a call repeating the MSN of the stored snapshot reports the sample 0
\* and no MsnGoneBackwards event.
C11_SnapshotAlwaysReplaced ==
    [][/\ last_call'.op = "next_playlist"
            => /\ is_some(last_playlist')
               /\ unwrap(last_playlist').playlist = Supplied
       /\ last_call'.op # "next_playlist" => last_playlist' = last_playlist
       /\ is_some(last_playlist) => is_some(last_playlist')
       /\ (/\ last_call'.op = "next_playlist"
           /\ is_some(last_playlist)
           /\ Prior.media_sequence = Supplied.media_sequence)
            => /\ msn_regression' = <<0>>
               /\ Count(log', "MsnGoneBackwards") = 0]_vars

\* C12: next_playlist fails soft on a playlist without segments: no call
\* unwinds, and every next_playlist call ends with a stored snapshot.
C12_FailSoft ==
    /\ panicked = ""
    /\ last_call.op = "next_playlist" => is_some(last_playlist)

\* the segments-removed branch of check_update: the MSN did not go back, the
\* last segment number did
Removal ==
    /\ last_call'.op = "next_playlist"
    /\ is_some(last_playlist)
    /\ Prior.media_sequence <= Supplied.media_sequence
    /\ is_some(last_segment(Prior)) /\ is_some(last_segment(Supplied))
    /\ LastNumber(Supplied) < LastNumber(Prior)

\* C13: a next_playlist call whose MSN is not lower than the stored one but
\* whose last segment number is lower emits exactly one LiveSegmentsRemoved
\* event carrying removed_count = prior last - new last, an error if
\* removed_count > 1 and a warning if it is 1; that call runs neither the
\* history invariant nor the staleness check nor the timeline update, so the
\* counter, final_msn, the fresh baseline and the Timeline stay as they were.
C13_LiveSegmentsRemoved ==
    [][Removal =>
         LET removed_count == LastNumber(Prior) - LastNumber(Supplied)
             at == EventsOf(log', {"LiveSegmentsRemoved"})
         IN /\ Cardinality(at) = 1
            /\ \A i \in at :
                 /\ log'[i].x = LastNumber(Prior)
                 /\ log'[i].y = LastNumber(Supplied)
                 /\ log'[i].z = removed_count
                 /\ log'[i].sev = IF removed_count > 1 THEN "error" ELSE "warning"
            /\ EventsOf(log', HistoryKinds \cup {"ManifestStale", "MsnGoneBackwards"}) = {}
            /\ tl_calls' = <<>>
            /\ msn_regression' = <<0>>
            /\ UNCHANGED <<since_last_update, final_msn, last_fresh_playlist_req,
                           timeline>>]_vars

\* two segments vanished from the live edge in the last call
C13_Witness ==
    /\ last_call.op = "next_playlist"
    /\ tl_calls = <<>>
    /\ \E i \in DOMAIN log :
         IsEvent(log[i], "LiveSegmentsRemoved", "error") /\ log[i].z = 2

\* C14: the pairing assertion of the history invariant never fails: in every
\* next_playlist call on the sane branch, pairing the prior segments from
\* offset new MSN - prior MSN with the new segments from the start pairs
\* segments of the same number, and the call does not stop on the assertion.
C14_PairingHolds ==
    [][(/\ last_call'.op = "next_playlist"
        /\ is_some(last_playlist)
        /\ sane(Prior, Supplied)) =>
         LET pairs == zip(skip(segments(Prior),
                               Supplied.media_sequence - Prior.media_sequence),
                          segments(Supplied))
         IN /\ \A i \in DOMAIN pairs : pairs[i][1].number = pairs[i][2].number
            /\ panicked' # "assert_eq"]_vars

\* the window slid by one and the two snapshots still share segment 1
C14_Witness ==
    /\ last_call.op = "next_playlist"
    /\ panicked = ""
    /\ prior_msn = Some(0)
    /\ is_some(last_playlist)
    /\ Numbers(unwrap(last_playlist).playlist) = <<1, 2>>
    /\ Len(tl_calls) = 2
    /\ tl_calls[2].segs = <<2>>

LifetimeKinds ==
    {"UnexpectedPlaylistPropertyRemoval", "UnexpectedPlaylistPropertyAddition",
     "TargetDurationChanged", "ContentTypeChanged"}
SequencingKinds == {"MsnGoneBackwards", "LiveSegmentsRemoved"}

\* C15: IncorrectContentType is emitted only by the first next_playlist call
\* of an engine, as one error, exactly when the content type of that response
\* is absent or not the HLS media-playlist type; no later call and no other
\* operation emits it.  The first call runs no lifetime, sequencing, history
\* or staleness check, appends every segment of the playlist to the Timeline
\* and records its exchange as the fresh baseline.
C15_InitialConfiguration ==
    [][/\ last_call'.op # "next_playlist" => Count(log', "IncorrectContentType") = 0
       /\ last_call'.op = "next_playlist" =>
            LET this == unwrap(last_playlist')
                at == EventsOf(log', {"IncorrectContentType"})
            IN IF seen_playlist
               THEN at = {}
               ELSE /\ Cardinality(at) = IF this.href.content_type = CT_HLS THEN 0 ELSE 1
                    /\ \A i \in at : /\ log'[i].sev = "error"
                                      /\ log'[i].after = reqs'
                                      /\ log'[i].x = this.href.content_type
                    /\ EventsOf(log', LifetimeKinds \cup SequencingKinds
                                         \cup HistoryKinds \cup {"ManifestStale"}) = {}
                    /\ msn_regression' = <<>>
                    /\ tl_calls' = <<[op |-> "append_new_segments", cutoff |-> 0,
                                      segs |-> Numbers(Supplied)]>>
                    /\ last_fresh_playlist_req' = Some(reqs')
                    /\ UNCHANGED <<since_last_update, final_msn>>]_vars

\* a second snapshot arrived with another content type than the first one's:
\* the change is reported, the type itself is not checked again
C15_Witness ==
    /\ last_call.op = "next_playlist"
    /\ prior_msn = Some(0)
    /\ unwrap(last_playlist).href.content_type = CT_OTHER
    /\ Count(log, "ContentTypeChanged") = 1
    /\ Count(log, "IncorrectContentType") = 0

\* the segment numbers the Timeline tracks when the engine makes the i-th
\* Timeline call of the current operation
TrackedBefore(i) ==
    {n \in timeline :
        \A k \in 1..(i - 1) :
            tl_calls'[k].op = "remove_older_than" => n >= tl_calls'[k].cutoff}

\* C16: whatever calls came before, regressions and removals included, the
\* engine never hands the Timeline a segment number that the Timeline already
\* tracks at that moment.
C16_OnlyNewAppended ==
    [][\A i \in DOMAIN tl_calls' :
          tl_calls'[i].op = "append_new_segments" =>
             \A j \in DOMAIN tl_calls'[i].segs :
                 tl_calls'[i].segs[j] \notin TrackedBefore(i)]_vars

\* C17: as long as every next_playlist call was the first snapshot or took
\* the sane branch, after each call the Timeline tracks exactly the segment
\* numbers of the stored snapshot, and the call appended none of them twice
\* and none that was already tracked.
C17_TimelineMirrorsSnapshot ==
    [][(only_sane' /\ is_some(last_playlist')) =>
         LET pl == unwrap(last_playlist').playlist
         IN /\ timeline' = {Numbers(pl)[i] : i \in DOMAIN Numbers(pl)}
            /\ \A n \in timeline' : n >= pl.media_sequence
            /\ \A i \in DOMAIN tl_calls' :
                  \A j \in DOMAIN tl_calls'[i].segs :
                     tl_calls'[i].segs[j] \notin TrackedBefore(i)]_vars

\* the window slid by one on the sane branch: the Timeline evicted segment 0 and
\* gained segment 3
C17_Witness ==
    /\ only_sane
    /\ last_call.op = "next_playlist"
    /\ prior_msn = Some(0)
    /\ is_some(last_playlist)
    /\ unwrap(last_playlist).playlist.media_sequence = 1
    /\ timeline = {1, 2, 3}
    /\ Len(tl_calls) = 2
    /\ tl_calls[1].cutoff = 1
    /\ tl_calls[2].segs = <<3>>

\* C18 (as stated): ManifestStale is emitted only by a next_playlist call
\* whose last segment number equals the last segment number of the stored
\* snapshot, whatever calls came before.
C18_Original ==
    [][Count(log', "ManifestStale") > 0 =>
         /\ last_call'.op = "next_playlist"
         /\ is_some(last_playlist)
         /\ LastNumber(Supplied) = LastNumber(Prior)]_vars

\* C18 (amended): ManifestStale is emitted only by a next_playlist call on
\* the sane branch whose last segment number does not exceed final_msn, the
\* last number seen by the latest staleness check, while since_last_update
\* exceeds 1; one event per call.  When final_msn is the stored snapshot's
\* last number the new last number equals it.
C18_StaleOnlyBehindFinalMsn ==
    [][Count(log', "ManifestStale") > 0 =>
         /\ Count(log', "ManifestStale") = 1
         /\ last_call'.op = "next_playlist"
         /\ is_some(last_playlist)
         /\ sane(Prior, Supplied)
         /\ is_some(final_msn)
         /\ LastNumber(Supplied) <= unwrap(final_msn)
         /\ since_last_update > 1
         /\ unwrap(final_msn) = LastNumber(Prior)
              => LastNumber(Supplied) = LastNumber(Prior)]_vars

\* staleness reported by a call that also handed the Timeline a segment
\* above the stored snapshot's last one
C18_Witness ==
    /\ last_call.op = "next_playlist"
    /\ Count(log, "ManifestStale") = 1
    /\ Len(tl_calls) = 2
    /\ tl_calls[2].segs # <<>>

\* a next_playlist call that moves the fresh baseline: the first snapshot, or
\* a staleness check that sees the last segment number exceed final_msn
MovesBaseline ==
    /\ last_call'.op = "next_playlist"
    /\ \/ ~is_some(last_playlist)
       \/ /\ sane(Prior, Supplied)
          /\ is_some(final_msn)
          /\ LastNumber(Supplied) > unwrap(final_msn)

\* C19: whenever a snapshot is stored, last_fresh_playlist_req is set, so the
\* staleness check never fails reading it; it is the exchange of the first
\* snapshot or of the latest staleness check that saw the last segment number
\* exceed final_msn, and nothing else moves it.
C19_FreshBaselineDefined ==
    [][/\ is_some(last_playlist') => is_some(last_fresh_playlist_req')
       /\ panicked' # "unwrap_fresh"
       /\ last_fresh_playlist_req' =
            IF MovesBaseline THEN Some(reqs') ELSE last_fresh_playlist_req
       /\ \A i \in EventsOf(log', {"ManifestStale"}) :
            /\ is_some(last_fresh_playlist_req)
            /\ log'[i].before = unwrap(last_fresh_playlist_req)]_vars

\* a staleness check after the first snapshot saw progress and moved the
\* baseline to its own exchange
C19_Witness ==
    /\ last_call.op = "next_playlist"
    /\ is_some(prior_msn)
    /\ is_some(final_msn)
    /\ reqs >= 3
    /\ since_last_update = 1
    /\ last_fresh_playlist_req = Some(reqs)

\* C20: no unsigned subtraction of next_playlist leaves the unsigned range:
\* the regression size, removed_count, the history skip and the timeline
\* skip are each computed only where the minuend is at least the subtrahend.
C20_NoUnderflow == panicked # "overflow"

\* a sane call that computed a history skip of 2 and a timeline skip of 1
C20_Witness ==
    /\ last_call.op = "next_playlist"
    /\ panicked = ""
    /\ prior_msn = Some(0)
    /\ is_some(last_playlist)
    /\ Numbers(unwrap(last_playlist).playlist) = <<2, 3>>
    /\ msn_regression = <<0>>
    /\ Len(tl_calls) = 2
    /\ tl_calls[2].segs = <<3>>
====
